---- MODULE Spec2Model ----
(***************************************************************************)
(* Model of the GPT-5 / Linkup legal assistant: the answer orchestrator     *)
(* get_gpt5_response_with_sources in its one-shot form (main.py) and its    *)
(* interactive form (streamlit.py), the search function search_linkup, and  *)
(* the Streamlit chat shell that keeps st.session_state.messages.           *)
(*                                                                         *)
(* Text is a sequence of string tokens, so that concatenation (+=) and the  *)
(* f-string templates are sequence concatenation.  The completion API and   *)
(* the search API are the environment: their responses are drawn from       *)
(* bounded sets, and either may raise instead of responding.                *)
(***************************************************************************)
EXTENDS Integers, Sequences, FiniteSets, TLC

VARIABLES
    variant,        \* "oneshot" (main.py) or "interactive" (streamlit.py)
    pc,             \* position of the running script
    messages,       \* st.session_state.messages, the turn log
    question,       \* argument question of the orchestrator
    history,        \* argument conversation_history of the orchestrator
    completions,    \* requests sent to openai_client.responses.create by this call
    searches,       \* requests sent to linkup_client.search by this call
    response,       \* response.output of the first completion call
    idx,            \* position of the loop `for item in response.output`
    output_text,    \* local output_text
    tool_results,   \* local tool_results
    sources,        \* local sources
    follow_up,      \* follow_up_response.output
    error,          \* the exception that ended the call, "" when none
    stdout,         \* what the one-shot script printed
    afterClear      \* history variable: no submission has completed since the last clear

vars == <<variant, pc, messages, question, history, completions, searches,
          response, idx, output_text, tool_results, sources, follow_up,
          error, stdout, afterClear>>

(***************************************************************************)
(* Bounds of the model.                                                     *)
(***************************************************************************)
MaxItems == 2        \* longest response.output of the first completion call
MaxTurns == 2        \* longest turn log under Spec
MaxChatTurns == 10   \* longest turn log under SpecChat

(***************************************************************************)
(* Generic helpers.                                                         *)
(***************************************************************************)
SeqsUpTo(S, n) == UNION {[1..k -> S] : k \in 0..n}

IsPrefix(s, t) == Len(s) <= Len(t) /\ SubSeq(t, 1, Len(s)) = s

Max(a, b) == IF a >= b THEN a ELSE b


(***************************************************************************)
(* Response items of the completion API (response.output).  An item either  *)
(* has no content attribute, has content None, or has a list of parts; a    *)
(* part has a text attribute or not.                                        *)
(***************************************************************************)
NoArguments == [syntax |-> "none", members |-> {}]

Part(t) == [has_text |-> TRUE, text |-> t]

PartWithoutText == [has_text |-> FALSE, text |-> <<>>]

MessageItem(c) ==
    [type |-> "message", name |-> "", arguments |-> NoArguments,
     content_state |-> "list", content |-> c]

ReasoningItem ==
    [type |-> "reasoning", name |-> "", arguments |-> NoArguments,
     content_state |-> "none", content |-> <<>>]

FunctionCall(n, a) ==
    [type |-> "function_call", name |-> n, arguments |-> a,
     content_state |-> "absent", content |-> <<>>]

(***************************************************************************)
(* item.arguments is a string holding JSON.  The string is modelled by the  *)
(* document it spells: text that is no JSON, a JSON value that is no        *)
(* object (an array), or an object given as its set of <<key, value>>       *)
(* members.                                                                 *)
(***************************************************************************)
JsonObject(m) == [syntax |-> "object", members |-> m]

ArgsQuery == JsonObject({<<"query", "q1">>})

ArgsFull ==
    JsonObject({<<"query", "q2">>, <<"depth", "deep">>,
                <<"output_type", "searchResults">>})

ArgsNoQuery == JsonObject({<<"depth", "deep">>})

ArgsExtra == JsonObject({<<"query", "q1">>, <<"include_domains", "evil.example">>})

ArgsArray == [syntax |-> "array", members |-> {}]

ArgsInvalid == [syntax |-> "invalid", members |-> {}]

Payloads == {ArgsQuery, ArgsFull, ArgsNoQuery, ArgsExtra, ArgsArray, ArgsInvalid}

(***************************************************************************)
(* Results of the search API: an object that exposes a sources list or      *)
(* not; each entry exposes a name and a url or not.  repr is the text       *)
(* str(result) yields in an f-string.                                       *)
(***************************************************************************)
Entry(hn, n, hu, u) == [has_name |-> hn, name |-> n, has_url |-> hu, url |-> u]

SearchResult(hs, s, r) == [has_sources |-> hs, sources |-> s, repr |-> r]

Result1 ==
    SearchResult(TRUE, <<Entry(TRUE, "n1", TRUE, "u1"), Entry(TRUE, "n2", FALSE, ""),
                         Entry(TRUE, "n3", TRUE, "u3")>>, "R1")

Result2 ==
    SearchResult(TRUE, <<Entry(FALSE, "", TRUE, "u4"), Entry(TRUE, "n5", TRUE, "u5"),
                         Entry(FALSE, "", FALSE, "")>>, "R2")

Result3 == SearchResult(FALSE, <<>>, "R3")

Result4 == SearchResult(TRUE, <<>>, "R4")

(***************************************************************************)
(* The environment's choices.                                               *)
(***************************************************************************)
Prompts == {<<"p1">>, <<"p2">>}

Items ==
    {MessageItem(<<Part(<<"a">>)>>),
     MessageItem(<<Part(<<"a">>), PartWithoutText, Part(<<"b">>)>>),
     ReasoningItem,
     FunctionCall("other_tool", ArgsQuery)}
    \cup {FunctionCall("search_linkup", a) : a \in Payloads}

Responses == SeqsUpTo(Items, MaxItems)

FollowUps ==
    {<<>>,
     <<MessageItem(<<Part(<<"c">>)>>)>>,
     <<ReasoningItem, MessageItem(<<Part(<<"c">>), PartWithoutText, Part(<<"d">>)>>)>>,
     <<FunctionCall("search_linkup", ArgsQuery), MessageItem(<<Part(<<"d">>)>>)>>}

SearchResults == {Result1, Result2, Result3, Result4}

ChatResponses ==
    {<<ReasoningItem, MessageItem(<<Part(<<"a">>)>>)>>,
     <<FunctionCall("search_linkup", ArgsQuery)>>,
     <<FunctionCall("search_linkup", ArgsInvalid)>>}

ChatFollowUps == {<<MessageItem(<<Part(<<"c">>)>>)>>}

ChatSearchResults == {Result2}

ApiErrors == {"APIError"}

(***************************************************************************)
(* search_linkup and the tool call: json.loads, then the keyword call.      *)
(***************************************************************************)
OfficialDomains ==
    <<"legifrance.gouv.fr", "service-public.fr", "conseil-constitutionnel.fr",
      "assemblee-nationale.fr", "senat.fr", "insee.fr", "data.gouv.fr">>

SearchParameters == {"query", "depth", "output_type"}

\* json.loads(item.arguments): raises on text that is no JSON
json_loads(arguments) ==
    IF arguments.syntax \in {"object", "array"}
    THEN [ok |-> TRUE, value |-> arguments]
    ELSE [ok |-> FALSE, value |-> arguments]

Keys(args) == {m[1] : m \in args.members}

Get(args, k, default) ==
    IF k \in Keys(args)
    THEN (CHOOSE m \in args.members : m[1] = k)[2]
    ELSE default

\* variant of BindsSignature that lets a call without query through
BindsWithoutQuery(args) ==
    /\ args.syntax = "object"
    /\ Keys(args) \subseteq SearchParameters

\* the keyword call of search_linkup binds: args is a mapping, query is given, and every
\* key is a parameter of search_linkup; otherwise Python raises TypeError
BindsSignature(args) ==
    /\ args.syntax = "object"
    /\ "query" \in Keys(args)
    /\ Keys(args) \subseteq SearchParameters

\* variant of search_linkup that sends no domain restriction
search_linkup_unrestricted(args) ==
    [query |-> Get(args, "query", ""),
     depth |-> Get(args, "depth", "standard"),
     output_type |-> Get(args, "output_type", "sourcedAnswer"),
     include_domains |-> <<>>]

\* the request search_linkup sends to linkup_client.search
search_linkup(args) ==
    [query |-> Get(args, "query", ""),
     depth |-> Get(args, "depth", "standard"),
     output_type |-> Get(args, "output_type", "sourcedAnswer"),
     include_domains |-> OfficialDomains]

(***************************************************************************)
(* The scan of a response: text accumulation and source extraction.         *)
(***************************************************************************)
HasContent(item) == item.content_state = "list"

IsSearchCall(item) ==
    ~HasContent(item) /\ item.type = "function_call" /\ item.name = "search_linkup"

\* variant of TextOf that stops after the first part
TextOfFirstPart(content) ==
    IF content = <<>> THEN <<>>
    ELSE IF Head(content).has_text THEN Head(content).text ELSE <<>>

RECURSIVE TextOf(_)
\* for content in item.content: if hasattr(content, "text"): output_text += content.text
TextOf(content) ==
    IF content = <<>> THEN <<>>
    ELSE (IF Head(content).has_text THEN Head(content).text ELSE <<>>)
         \o TextOf(Tail(content))

RECURSIVE ResponseText(_)
\* the text a loop over output adds to output_text
ResponseText(output) ==
    IF output = <<>> THEN <<>>
    ELSE (IF HasContent(Head(output)) THEN TextOf(Head(output).content) ELSE <<>>)
         \o ResponseText(Tail(output))

RECURSIVE SourcePairsEitherField(_)
\* variant of SourcePairs that keeps an entry with a name or a url
SourcePairsEitherField(entries) ==
    IF entries = <<>> THEN <<>>
    ELSE (IF Head(entries).has_url \/ Head(entries).has_name
          THEN << <<Head(entries).name, Head(entries).url>> >>
          ELSE <<>>)
         \o SourcePairsEitherField(Tail(entries))

RECURSIVE SourcePairs(_)
SourcePairs(entries) ==
    IF entries = <<>> THEN <<>>
    ELSE (IF Head(entries).has_url /\ Head(entries).has_name
          THEN << <<Head(entries).name, Head(entries).url>> >>
          ELSE <<>>)
         \o SourcePairs(Tail(entries))

\* the pairs one search result adds to sources
ExtractSources(result) ==
    IF result.has_sources /\ result.sources # <<>>
    THEN SourcePairs(result.sources)
    ELSE <<>>

(***************************************************************************)
(* The inputs of the two completion calls.                                  *)
(***************************************************************************)
HistoryWindow == 6

\* variant of LastN that does not truncate
LastNWhole(s, n) == s

\* Python's s[-n:]
LastN(s, n) == SubSeq(s, Max(1, Len(s) - n + 1), Len(s))

RECURSIVE FormatHistory(_)
\* context += f"{msg['role']}: {msg['content']}\n" for each msg
FormatHistory(h) ==
    IF h = <<>> THEN <<>>
    ELSE <<Head(h).role, ": ">> \o Head(h).content \o <<"\n">>
         \o FormatHistory(Tail(h))

\* streamlit.py: input_text
BuildInput(q, h) ==
    IF h # <<>>
    THEN <<"Contexte de conversation précédente:\n">>
         \o FormatHistory(LastN(h, HistoryWindow))
         \o <<"\nNouvelle question: ">> \o q
    ELSE q

\* the input of the first completion call in each variant
FirstInput(v, q, h) == IF v = "interactive" THEN BuildInput(q, h) ELSE q

\* variant of FollowUpInput that embeds the last tool result
FollowUpInputLast(q, results) ==
    <<"Question: ">> \o q \o <<"\nTool results: ", results[Len(results)].repr,
      "\nProvide a complete answer using this information.">>

\* the input of the follow-up completion call
FollowUpInput(q, results) ==
    <<"Question: ">> \o q \o <<"\nTool results: ", results[1].repr,
      "\nProvide a complete answer using this information.">>

FirstRequest(v, q, h) == [input |-> FirstInput(v, q, h), tools |-> <<"search_linkup">>]

FollowUpRequest(q, results) == [input |-> FollowUpInput(q, results), tools |-> <<>>]

\* output_text after the loop over follow_up_response.output: streamlit.py
\* resets output_text first, main.py does not
FollowUpText(v, text, output) ==
    IF v = "interactive" THEN ResponseText(output) ELSE text \o ResponseText(output)

(***************************************************************************)
(* The turn log of the chat shell.                                          *)
(***************************************************************************)
UserTurn(prompt) == [role |-> "user", content |-> prompt]

AssistantTurn(text, srcs) == [role |-> "assistant", content |-> text, sources |-> srcs]

ErrorTurn(e) ==
    [role |-> "assistant", content |-> <<"Désolé, une erreur s'est produite: ", e>>,
     sources |-> <<>>]

\* variant of HistoryArg that passes the whole log
HistoryArgWhole(log) == log

\* st.session_state.messages[:-1]
HistoryArg(log) == SubSeq(log, 1, Len(log) - 1)

\* variant of AppendTurn that overwrites the last turn
ReplaceLastTurn(log, turn) ==
    IF log = <<>> THEN <<turn>> ELSE [log EXCEPT ![Len(log)] = turn]

\* st.session_state.messages.append(turn)
AppendTurn(log, turn) == Append(log, turn)

\* variant of ClearedLog that leaves the log as it is
KeptLog == messages

\* st.session_state.messages = []
ClearedLog == <<>>

\* the hardcoded question of main.py
MainQuestion == <<" Explique moi les principes de l'article L121-2 du code de commerce ?">>

(***************************************************************************)
(* Initial state: the script has not run yet.                               *)
(***************************************************************************)
NoCall ==
    /\ question = <<>>
    /\ history = <<>>
    /\ completions = <<>>
    /\ searches = <<>>
    /\ response = <<>>
    /\ idx = 0
    /\ output_text = <<>>
    /\ tool_results = <<>>
    /\ sources = <<>>
    /\ follow_up = <<>>
    /\ error = ""

Init ==
    /\ variant \in {"oneshot", "interactive"}
    /\ pc = "boot"
    /\ messages = <<>>
    /\ stdout = <<>>
    /\ afterClear = FALSE
    /\ NoCall

InitChat == Init /\ variant = "interactive"

(***************************************************************************)
(* get_gpt5_response_with_sources, from its call to its return or raise.    *)
(***************************************************************************)
\* the call: the input is built and the first completion request is sent
CallOrchestrator(q, h) ==
    /\ question' = q
    /\ history' = h
    /\ completions' = <<FirstRequest(variant, q, h)>>
    /\ searches' = <<>>
    /\ response' = <<>>
    /\ idx' = 0
    /\ output_text' = <<>>
    /\ tool_results' = <<>>
    /\ sources' = <<>>
    /\ follow_up' = <<>>
    /\ error' = ""
    /\ pc' = "completion1"

\* the frame of the call is gone once the shell has taken its outcome
ForgetCall ==
    /\ question' = <<>>
    /\ history' = <<>>
    /\ completions' = <<>>
    /\ searches' = <<>>
    /\ response' = <<>>
    /\ idx' = 0
    /\ output_text' = <<>>
    /\ tool_results' = <<>>
    /\ sources' = <<>>
    /\ follow_up' = <<>>
    /\ error' = ""

\* openai_client.responses.create returns the first response
Completion1Responds(R) ==
    /\ pc = "completion1"
    /\ \E r \in R : response' = r
    /\ idx' = 1
    /\ output_text' = <<>>
    /\ tool_results' = <<>>
    /\ sources' = <<>>
    /\ pc' = "scan"
    /\ UNCHANGED <<variant, messages, question, history, completions, searches,
                   follow_up, error, stdout, afterClear>>

\* a completion call or a search call raises (network, auth, quota)
ApiError ==
    /\ pc \in {"completion1", "search", "completion2"}
    /\ \E e \in ApiErrors : error' = e
    /\ pc' = "raised"
    /\ UNCHANGED <<variant, messages, question, history, completions, searches,
                   response, idx, output_text, tool_results, sources, follow_up,
                   stdout, afterClear>>

\* loop body, first branch: the item carries content
ScanContent ==
    /\ pc = "scan"
    /\ idx <= Len(response)
    /\ HasContent(response[idx])
    /\ output_text' = output_text \o TextOf(response[idx].content)
    /\ idx' = idx + 1
    /\ UNCHANGED <<variant, pc, messages, question, history, completions, searches,
                   response, tool_results, sources, follow_up, error, stdout,
                   afterClear>>

\* loop body, second branch: the arguments parse and bind, the search is sent
ScanToolCall ==
    /\ pc = "scan"
    /\ idx <= Len(response)
    /\ IsSearchCall(response[idx])
    /\ LET parsed == json_loads(response[idx].arguments) IN
         /\ parsed.ok
         /\ BindsSignature(parsed.value)
         /\ searches' = Append(searches, search_linkup(parsed.value))
    /\ pc' = "search"
    /\ UNCHANGED <<variant, messages, question, history, completions, response, idx,
                   output_text, tool_results, sources, follow_up, error, stdout,
                   afterClear>>

\* loop body, second branch: json.loads or the keyword call raises
ToolCallRaises ==
    /\ pc = "scan"
    /\ idx <= Len(response)
    /\ IsSearchCall(response[idx])
    /\ LET parsed == json_loads(response[idx].arguments) IN
         /\ ~(parsed.ok /\ BindsSignature(parsed.value))
         /\ error' = IF parsed.ok THEN "TypeError" ELSE "JSONDecodeError"
    /\ pc' = "raised"
    /\ UNCHANGED <<variant, messages, question, history, completions, searches,
                   response, idx, output_text, tool_results, sources, follow_up,
                   stdout, afterClear>>

\* loop body, neither branch: the item is passed over
ScanSkip ==
    /\ pc = "scan"
    /\ idx <= Len(response)
    /\ ~HasContent(response[idx])
    /\ ~IsSearchCall(response[idx])
    /\ idx' = idx + 1
    /\ UNCHANGED <<variant, pc, messages, question, history, completions, searches,
                   response, output_text, tool_results, sources, follow_up, error,
                   stdout, afterClear>>

\* linkup_client.search returns: the result is recorded, its sources extracted
SearchResponds(S) ==
    /\ pc = "search"
    /\ \E r \in S :
         /\ tool_results' = Append(tool_results, r)
         /\ sources' = sources \o ExtractSources(r)
    /\ idx' = idx + 1
    /\ pc' = "scan"
    /\ UNCHANGED <<variant, messages, question, history, completions, searches,
                   response, output_text, follow_up, error, stdout, afterClear>>

\* after the loop, tool_results is non-empty: the follow-up request is sent
SendFollowUp ==
    /\ pc = "scan"
    /\ idx > Len(response)
    /\ tool_results # <<>>
    /\ completions' = Append(completions, FollowUpRequest(question, tool_results))
    /\ pc' = "completion2"
    /\ UNCHANGED <<variant, messages, question, history, searches, response, idx,
                   output_text, tool_results, sources, follow_up, error, stdout,
                   afterClear>>

\* after the loop, tool_results is empty: return output_text, sources
ReturnFirst ==
    /\ pc = "scan"
    /\ idx > Len(response)
    /\ tool_results = <<>>
    /\ pc' = "returned"
    /\ UNCHANGED <<variant, messages, question, history, completions, searches,
                   response, idx, output_text, tool_results, sources, follow_up,
                   error, stdout, afterClear>>

\* the follow-up response arrives, its text is taken, the call returns
Completion2Responds(F) ==
    /\ pc = "completion2"
    /\ \E f \in F :
         /\ follow_up' = f
         /\ output_text' = FollowUpText(variant, output_text, f)
    /\ pc' = "returned"
    /\ UNCHANGED <<variant, messages, question, history, completions, searches,
                   response, idx, tool_results, sources, error, stdout, afterClear>>

(***************************************************************************)
(* The one-shot script main.py.                                             *)
(***************************************************************************)
MainStart ==
    /\ variant = "oneshot"
    /\ pc = "boot"
    /\ CallOrchestrator(MainQuestion, <<>>)
    /\ UNCHANGED <<variant, messages, stdout, afterClear>>

\* the three prints: the answer, the number of sources, the numbered list
MainPrint ==
    /\ variant = "oneshot"
    /\ pc = "returned"
    /\ stdout' = <<[answer |-> output_text, found |-> Len(sources), listed |-> sources]>>
    /\ pc' = "done"
    /\ UNCHANGED <<variant, messages, question, history, completions, searches,
                   response, idx, output_text, tool_results, sources, follow_up,
                   error, afterClear>>

\* the exception is not caught: the process ends with a traceback
MainCrash ==
    /\ variant = "oneshot"
    /\ pc = "raised"
    /\ pc' = "crashed"
    /\ UNCHANGED <<variant, messages, question, history, completions, searches,
                   response, idx, output_text, tool_results, sources, follow_up,
                   error, stdout, afterClear>>

(***************************************************************************)
(* The chat shell of streamlit.py: one script run per user interaction.     *)
(***************************************************************************)
\* a run with no widget triggered: session state is initialised on the first
\* run, and the log is displayed
ScriptRun ==
    /\ variant = "interactive"
    /\ pc \in {"boot", "idle"}
    /\ messages' = IF pc = "boot" THEN <<>> ELSE messages
    /\ pc' = "idle"
    /\ UNCHANGED <<variant, question, history, completions, searches, response, idx,
                   output_text, tool_results, sources, follow_up, error, stdout,
                   afterClear>>

\* st.chat_input yields a prompt: the user turn is appended and the
\* orchestrator is called with the prior turns
Submit(maxTurns) ==
    /\ variant = "interactive"
    /\ pc = "idle"
    /\ Len(messages) + 2 <= maxTurns
    /\ \E prompt \in Prompts :
         /\ messages' = AppendTurn(messages, UserTurn(prompt))
         /\ CallOrchestrator(prompt, HistoryArg(messages'))
    /\ UNCHANGED <<variant, stdout, afterClear>>

\* the call returned: the assistant turn is appended
AppendAnswer ==
    /\ variant = "interactive"
    /\ pc = "returned"
    /\ messages' = AppendTurn(messages, AssistantTurn(output_text, sources))
    /\ pc' = "idle"
    /\ afterClear' = FALSE
    /\ ForgetCall
    /\ UNCHANGED <<variant, stdout>>

\* except Exception: the error turn is appended
AppendError ==
    /\ variant = "interactive"
    /\ pc = "raised"
    /\ messages' = AppendTurn(messages, ErrorTurn(error))
    /\ pc' = "idle"
    /\ afterClear' = FALSE
    /\ ForgetCall
    /\ UNCHANGED <<variant, stdout>>

\* the sidebar button: the log is emptied and the script reruns
Clear ==
    /\ variant = "interactive"
    /\ pc = "idle"
    /\ messages' = ClearedLog
    /\ afterClear' = TRUE
    /\ UNCHANGED <<variant, pc, question, history, completions, searches, response,
                   idx, output_text, tool_results, sources, follow_up, error, stdout>>

(***************************************************************************)
(* Specifications.  Spec: both variants, one round, every response shape.   *)
(* SpecChat: the chat shell over long logs, a few response shapes.          *)
(***************************************************************************)
Next ==
    \/ MainStart
    \/ MainPrint
    \/ MainCrash
    \/ ScriptRun
    \/ Submit(MaxTurns)
    \/ Clear
    \/ AppendAnswer
    \/ AppendError
    \/ Completion1Responds(Responses)
    \/ ApiError
    \/ ScanContent
    \/ ScanToolCall
    \/ ToolCallRaises
    \/ ScanSkip
    \/ SearchResponds(SearchResults)
    \/ SendFollowUp
    \/ ReturnFirst
    \/ Completion2Responds(FollowUps)

Spec == Init /\ [][Next]_vars

NextChat ==
    \/ ScriptRun
    \/ Submit(MaxChatTurns)
    \/ Clear
    \/ AppendAnswer
    \/ AppendError
    \/ Completion1Responds(ChatResponses)
    \/ ApiError
    \/ ScanContent
    \/ ScanToolCall
    \/ ToolCallRaises
    \/ ScanSkip
    \/ SearchResponds(ChatSearchResults)
    \/ SendFollowUp
    \/ ReturnFirst
    \/ Completion2Responds(ChatFollowUps)

SpecChat == InitChat /\ [][NextChat]_vars

(***************************************************************************)
(* Vocabulary of the properties, written without the operators of the       *)
(* model so that the properties do not restate them.                        *)
(***************************************************************************)
RECURSIVE ConcatAll(_)
ConcatAll(ss) == IF Len(ss) = 0 THEN <<>> ELSE Head(ss) \o ConcatAll(Tail(ss))

\* the text fragments of one output item, in order
FragmentsOf(item) ==
    IF item.content_state = "list"
    THEN [j \in 1..Len(item.content) |->
            IF item.content[j].has_text THEN item.content[j].text ELSE <<>>]
    ELSE <<>>

\* the in-order concatenation of all text fragments of a response
ExpectedText(output) ==
    ConcatAll([i \in 1..Len(output) |-> ConcatAll(FragmentsOf(output[i]))])

HasBoth(e) == e.has_name /\ e.has_url

\* one (name, url) pair per entry of a result that has both fields
ExpectedPairs(result) ==
    IF result.has_sources
    THEN LET kept == SelectSeq(result.sources, HasBoth) IN
         [i \in 1..Len(kept) |-> <<kept[i].name, kept[i].url>>]
    ELSE <<>>

ExpectedSources(results) ==
    ConcatAll([i \in 1..Len(results) |-> ExpectedPairs(results[i])])

\* the search_linkup tool-invocation items of a response, in item order
SearchItems(output) == SelectSeq(output, IsSearchCall)

\* a payload that is a JSON object with a query
HasQuery(arguments) ==
    arguments.syntax = "object" /\ \E m \in arguments.members : m[1] = "query"

\* a payload that is a JSON object with a query and no key besides the
\* parameters of search_linkup
OnlyParameters(arguments) ==
    /\ HasQuery(arguments)
    /\ \A m \in arguments.members : m[1] \in {"query", "depth", "output_type"}

Member(arguments, k, default) ==
    IF \E m \in arguments.members : m[1] = k
    THEN (CHOOSE m \in arguments.members : m[1] = k)[2]
    ELSE default

FirstResponseReceived == idx >= 1

Returned == pc \in {"returned", "done"}

CallInProgress == pc \in {"completion1", "scan", "search", "completion2", "returned", "raised"}

TurnLine(m) == <<m.role, ": ">> \o m.content \o <<"\n">>

\* the input the first completion call is to get for question q and history h
ExpectedInput(q, h) ==
    IF Len(h) = 0 THEN q
    ELSE LET k == IF Len(h) > 6 THEN 6 ELSE Len(h) IN
         <<"Contexte de conversation précédente:\n">>
         \o ConcatAll([i \in 1..k |-> TurnLine(h[Len(h) - k + i])])
         \o <<"\nNouvelle question: ">> \o q

Alternates(log) ==
    /\ Len(log) % 2 = 0
    /\ \A i \in 1..Len(log) :
         /\ log[i].role = (IF i % 2 = 1 THEN "user" ELSE "assistant")
         /\ ("sources" \in DOMAIN log[i]) <=> (log[i].role = "assistant")

(***************************************************************************)
(* C1: whenever an answer call (either variant) whose first response has a  *)
(* search_linkup item with a well-formed payload returns, the returned      *)
(* text is exactly the text of the follow-up response.                      *)
(***************************************************************************)
C1_FollowUpReplaces ==
    (/\ Returned
     /\ \E i \in 1..Len(response) :
          IsSearchCall(response[i]) /\ HasQuery(response[i].arguments))
    => output_text = ExpectedText(follow_up)

\* the same statement for the interactive variant alone, which resets the text
C1_InteractiveReplaces ==
    (/\ variant = "interactive"
     /\ Returned
     /\ \E i \in 1..Len(response) :
          IsSearchCall(response[i]) /\ HasQuery(response[i].arguments))
    => output_text = ExpectedText(follow_up)

(***************************************************************************)
(* C2: once the first response has arrived and holds no search_linkup item, *)
(* the call makes one completion call and no search call and cannot fail,   *)
(* and it returns the concatenation of the response's text fragments and    *)
(* an empty source list.                                                    *)
(***************************************************************************)
C2_NoSearch ==
    (FirstResponseReceived /\ SearchItems(response) = <<>>)
    => /\ pc \in {"scan", "returned", "done"}
       /\ Len(completions) = 1
       /\ searches = <<>>
       /\ sources = <<>>
       /\ Returned => output_text = ExpectedText(response)
       /\ pc = "done" => stdout = <<[answer |-> ExpectedText(response), found |-> 0,
                                     listed |-> <<>>]>>

C2_Witness ==
    /\ pc = "returned"
    /\ Len(response) = 2
    /\ SearchItems(response) = <<>>
    /\ output_text = <<"a", "b", "a">>

(***************************************************************************)
(* C3: the source list holds, for the search results received so far in     *)
(* order, one (name, url) pair per entry that has both fields, in the order *)
(* of the entries; there is one result per search request answered.         *)
(***************************************************************************)
C3_Sources ==
    /\ sources = ExpectedSources(tool_results)
    /\ Len(sources) =
         Len(ConcatAll([i \in 1..Len(tool_results) |->
                          SelectSeq(tool_results[i].sources, HasBoth)]))
    /\ Returned => Len(tool_results) = Len(searches)

C3_Witness ==
    /\ pc = "returned"
    /\ tool_results = <<Result1, Result2>>
    /\ sources = << <<"n1", "u1">>, <<"n3", "u3">> , <<"n5", "u5">> >>

(***************************************************************************)
(* C4: in the interactive variant the input of the first completion call is *)
(* the question alone for an empty history, and otherwise the header, the   *)
(* "role: content" lines of the last 6 turns of the history (all of them    *)
(* when there are at most 6) in order, and the new question.                *)
(***************************************************************************)
C4_HistoryWindow ==
    (variant = "interactive" /\ CallInProgress)
    => /\ completions[1].input = ExpectedInput(question, history)
       /\ Len(messages) >= 1
       /\ history = SubSeq(messages, 1, Len(messages) - 1)

C4_Witness ==
    /\ pc = "completion1"
    /\ Len(history) = 8
    /\ history[1] # history[3]

(***************************************************************************)
(* C5: after a clear the turn log is empty until the next submission, and   *)
(* that submission calls the orchestrator with an empty history, so that    *)
(* the completion input is the question itself.                             *)
(***************************************************************************)
C5_ClearResets ==
    afterClear
    => /\ pc = "idle" => messages = <<>>
       /\ CallInProgress =>
            /\ history = <<>>
            /\ messages = <<[role |-> "user", content |-> question]>>
            /\ completions[1].input = question

C5_Witness ==
    /\ afterClear
    /\ pc = "returned"
    /\ history = <<>>

(***************************************************************************)
(* C6: when the first response holds a search_linkup item whose payload is  *)
(* no JSON, no JSON object, or an object without query, the call never      *)
(* sends a follow-up request and never returns; and in the interactive      *)
(* variant a raised call is taken by the shell, which appends exactly one   *)
(* assistant error turn with an empty source list right after the user      *)
(* turn of the attempt and goes back to waiting for input.                  *)
(***************************************************************************)
Malformed(arguments) == ~HasQuery(arguments)

HasMalformedCall ==
    /\ FirstResponseReceived
    /\ \E i \in 1..Len(response) :
         IsSearchCall(response[i]) /\ Malformed(response[i].arguments)

IsErrorTurn(m) ==
    /\ DOMAIN m = {"role", "content", "sources"}
    /\ m.role = "assistant"
    /\ m.sources = <<>>
    /\ Len(m.content) = 2
    /\ m.content[1] = "Désolé, une erreur s'est produite: "

C6_MalformedFails ==
    /\ [](HasMalformedCall
            => /\ pc \in {"scan", "search", "raised", "crashed"}
               /\ Len(completions) = 1)
    /\ [][(variant = "interactive" /\ pc = "raised")
            => /\ pc' = "idle"
               /\ Len(messages') = Len(messages) + 1
               /\ SubSeq(messages', 1, Len(messages)) = messages
               /\ IsErrorTurn(messages'[Len(messages')])
               /\ messages'[Len(messages)] = [role |-> "user", content |-> question]]_vars

C6_Witness ==
    /\ variant = "interactive"
    /\ pc = "raised"
    /\ HasMalformedCall
    /\ error = "TypeError"
    /\ Len(searches) = 1

(***************************************************************************)
(* C7: every request sent to the search API carries include_domains equal   *)
(* to the list of the 7 official domains, whatever the payload declared;    *)
(* a payload that names include_domains itself reaches no request.          *)
(***************************************************************************)
C7_FixedDomains ==
    /\ \A i \in 1..Len(searches) :
         searches[i].include_domains =
           <<"legifrance.gouv.fr", "service-public.fr", "conseil-constitutionnel.fr",
             "assemblee-nationale.fr", "senat.fr", "insee.fr", "data.gouv.fr">>
    /\ (pc = "search" /\ idx <= Len(response))
         => \A m \in response[idx].arguments.members : m[1] # "include_domains"

C7_Witness ==
    /\ Len(searches) = 2
    /\ searches[1].depth = "standard"
    /\ searches[2].depth = "deep"
    /\ searches[2].output_type = "searchResults"

(***************************************************************************)
(* C8 as stated: when every search_linkup item of the first response has a  *)
(* payload that is a JSON object with a query (n >= 1 such items) and no    *)
(* API call raises, the finished call has made exactly n searches and one   *)
(* follow-up completion call.                                               *)
(***************************************************************************)
AllCalls(P(_)) ==
    /\ FirstResponseReceived
    /\ SearchItems(response) # <<>>
    /\ \A i \in 1..Len(response) :
         IsSearchCall(response[i]) => P(response[i].arguments)

Finished == pc \in {"returned", "done", "raised", "crashed"}

ExpectedRequest(item) ==
    [query |-> Member(item.arguments, "query", ""),
     depth |-> Member(item.arguments, "depth", "standard"),
     output_type |-> Member(item.arguments, "output_type", "sourcedAnswer"),
     include_domains |->
       <<"legifrance.gouv.fr", "service-public.fr", "conseil-constitutionnel.fr",
         "assemblee-nationale.fr", "senat.fr", "insee.fr", "data.gouv.fr">>]

C9_AppendOnly ==
    [][/\ Clear \/ IsPrefix(messages, messages')
       /\ pc \in {"completion1", "scan", "search", "completion2"}
            => messages' = messages]_vars

C9_Witness ==
    /\ pc = "idle"
    /\ Len(messages) = 6
    /\ IsErrorTurn(messages[2])
    /\ ~IsErrorTurn(messages[4])
    /\ messages[6].sources # <<>>

(***************************************************************************)
(* C10: whenever no submission is in progress the turn log alternates       *)
(* user, assistant, ... from a user turn and has even length, and only      *)
(* assistant turns carry a source list; while a submission is in progress   *)
(* the log is the history passed to the orchestrator, itself alternating,   *)
(* followed by the one user turn of the question being answered.            *)
(***************************************************************************)
C10_Alternation ==
    /\ pc \in {"boot", "idle"} => Alternates(messages)
    /\ CallInProgress =>
         /\ Alternates(history)
         /\ messages = Append(history, [role |-> "user", content |-> question])

C10_Witness ==
    /\ pc = "idle"
    /\ Len(messages) = 4
    /\ IsErrorTurn(messages[2])
    /\ messages[1] = messages[3]
    /\ messages[4].sources # <<>>

====
